---- MODULE Spec2Model ----
(***************************************************************************)
(* Model of the Python subprocess bridge of apply_task-mcp                 *)
(* (gui/src-tauri/src/python/bridge.rs) and of the command handlers that   *)
(* reach it through AppState (lib.rs, commands/task.rs).                   *)
(*                                                                         *)
(* Callers are concurrent tasks that use one PythonBridge.  The backend    *)
(* is an external process: it may print any line at any time, close its    *)
(* stdout, or exit.                                                        *)
(*                                                                         *)
(*   Spec      callers share the bridge through &self (bridge API only)    *)
(*   SeqSpec   the bridge API used by one caller at a time                 *)
(*   AppSpec   the command handlers, which lock AppState.bridge            *)
(*   FairSpec  calls made one after the other, shutdown at any time, with  *)
(*             the scheduling fairness of the async runtime                *)
(*   EnvSpec   calls made one after the other to a backend that answers    *)
(*             tools/call with results of every shape                      *)
(*   PipeSpec  calls made one after the other to a backend that prints     *)
(*             lines ahead of the reads                                    *)
(***************************************************************************)
EXTENDS Integers, Sequences, FiniteSets, TLC

\* ---------------------------------------------------------------- bounds
MaxCalls == 2
MaxShutdowns == 2
MaxRacingShutdowns == 1
MaxPipe == 1
MaxText == 3
MaxBacklog == 2

\* Every invocation of call() or invoke() is a task of its own, numbered in
\* the order in which the invocations are made; so is every invocation of
\* shutdown().
CallTasks == 1..MaxCalls
ShutdownTasks == (MaxCalls + 1)..(MaxCalls + MaxShutdowns)
Callers == CallTasks \cup ShutdownTasks
\* every call spawns at most one process
Procs == 1..MaxCalls
\* every call allocates at most two request ids (initialize, tools/call)
FirstRequestId == 1
Ids == FirstRequestId..(2 * MaxCalls)
\* an id no request carries: the counter starts at FirstRequestId
UnsolicitedId == 0

None == 0

VARIABLES
    process,      \* PythonBridge.process: None or the spawned process it holds
    procLock,     \* holder of the PythonBridge.process mutex, None when free
    initialized,  \* PythonBridge.initialized
    request_id,   \* PythonBridge.request_id
    appLock,      \* holder of the AppState.bridge mutex, None when free
    dropped,      \* the PythonBridge has been destroyed
    spawned,      \* number of processes spawned so far
    status,       \* per process: "none", "running" or "exited"
    exitCode,     \* per process: its exit status once exited
    killed,       \* per process: Child::kill was called on it
    eof,          \* per process: its stdout write end is closed
    stdout,       \* per process: the lines in its stdout pipe, not yet read
    wire,         \* what the bridge did on the pipes of the process it holds, in order
    pc,           \* per caller: position in its operation
    method,       \* per caller: method of the call_raw in progress
    reqId,        \* per caller: id of the call_raw in progress
    lastRead,     \* the latest request/response exchange of the bridge
    ret,          \* per task: what its operation returned
    response,     \* per task: the response of its command handler
    calls,        \* call() invocations so far
    shutdowns     \* shutdown() invocations so far

bridgeVars == <<process, procLock, initialized, request_id, appLock, dropped>>
procVars == <<spawned, status, exitCode, killed, eof, stdout>>
callerVars == <<pc, method, reqId, ret, lastRead, calls, shutdowns, response>>
vars == <<process, procLock, initialized, request_id, appLock, dropped,
          spawned, status, exitCode, killed, eof, stdout, wire,
          pc, method, reqId, ret, lastRead, calls, shutdowns, response>>

\* ------------------------------------------------------------ JSON values
\* serde_json::Value, and None of an Option over it
Absent == [t |-> "absent"]
JNull == [t |-> "null"]
JNumber == [t |-> "number"]
JString(s) == [t |-> "string", s |-> s]
JArray(items) == [t |-> "array", items |-> items]
JObject(fields) == [t |-> "object", fields |-> fields]
\* the value of ()
Unit == [t |-> "unit"]

\* Value::get(key): the member of an object, None on anything else
Get(v, k) ==
    IF v.t = "object" /\ k \in DOMAIN v.fields THEN v.fields[k] ELSE Absent

\* Option::and_then(Value::as_array)
AsArray(v) == IF v.t = "array" THEN v ELSE Absent

\* Option::and_then(Value::as_str)
AsStr(v) == IF v.t = "string" THEN v ELSE Absent

\* slice::first
First(v) == IF v.t = "array" /\ v.items # <<>> THEN v.items[1] ELSE Absent

\* A JSON text is a sequence of tokens.
JsonTokens == {"1", "[", "]", ","}

ParseFailure == [ok |-> FALSE, val |-> Absent, next |-> 0]
Parsed(v, n) == [ok |-> TRUE, val |-> v, next |-> n]

\* serde_json::from_str on the text of a content item: one value, a number
\* or an array of values separated by commas, and nothing after it
RECURSIVE ParseValue(_, _)
RECURSIVE ParseElements(_, _, _)
ParseValue(s, i) ==
    IF i > Len(s) THEN ParseFailure
    ELSE IF s[i] = "1" THEN Parsed(JNumber, i + 1)
    ELSE IF s[i] = "["
         THEN IF i + 1 <= Len(s) /\ s[i + 1] = "]"
              THEN Parsed(JArray(<<>>), i + 2)
              ELSE ParseElements(s, i + 1, <<>>)
    ELSE ParseFailure

ParseElements(s, i, acc) ==
    LET r == ParseValue(s, i) IN
    IF ~r.ok \/ r.next > Len(s) THEN ParseFailure
    ELSE IF s[r.next] = "]" THEN Parsed(JArray(Append(acc, r.val)), r.next + 1)
    ELSE IF s[r.next] = "," THEN ParseElements(s, r.next + 1, Append(acc, r.val))
    ELSE ParseFailure

ParseJson(s) ==
    LET r == ParseValue(s, 1) IN
    IF r.ok /\ r.next = Len(s) + 1 THEN r ELSE ParseFailure

\* ------------------------------------------------------- response lines
\* JsonRpcError
RpcError(code, message) == [t |-> "error", code |-> code, message |-> message]

\* the members of a JsonRpcResponse that the bridge reads next to id: error
\* and result, each of them optional
Body(e, r) == [error |-> e, result |-> r]
NoBody == Body(Absent, Absent)
\* a result that does not use the content envelope, and an error response
PlainResult == Body(Absent, JObject([tasks |-> JArray(<<>>)]))
ErrorReply == Body(RpcError(-32000, "failed"), Absent)

\* What read_line left in response_line.  empty: nothing was read (end of
\* file).  json = FALSE is a line that is not a JSON-RPC response; otherwise
\* the line carries id and a body.
Garbage == [empty |-> FALSE, json |-> FALSE, id |-> UnsolicitedId, body |-> NoBody]
NoLine == [empty |-> TRUE, json |-> FALSE, id |-> UnsolicitedId, body |-> NoBody]
ResponseLine(i, b) == [empty |-> FALSE, json |-> TRUE, id |-> i, body |-> b]

\* serde_json::from_str::<JsonRpcResponse>: fails on a line that is not a
\* response object
ParseFails(line) == ~line.json

\* call_raw without the verification of the response id
IdNotVerified(line, id) == TRUE

\* the verification of the response id in call_raw
IdMatches(line, id) == line.id = id

\* ------------------------------------------------------------- records
\* An entry of wire: the process mutex taken ("lock"), the text of a message
\* written to the process's stdin ("body"), the newline that ends it, written
\* and flushed ("nl"), or one read_line on its stdout ("read").  The wire
\* starts empty with every process: it is the history of one process.  A read
\* carries how the exchange ended: "ok" (a response without error), "error"
\* (a response with the request's id that carries an error) or "fail"
\* (call_raw returned an error).
Ev(e, c, m, i, r) == [ev |-> e, by |-> c, method |-> m, id |-> i, res |-> r]

\* lastRead: the caller, the id of the request it wrote, the line its read
\* returned and what call_raw made of it
NoExchange == [by |-> None, id |-> UnsolicitedId, line |-> NoLine, outcome |-> "none"]
NoReturn == [kind |-> "none", err |-> "", code |-> "-", val |-> Absent]
NoResponse == [success |-> FALSE, error |-> "-", result |-> Absent,
               answered |-> FALSE]
Ok(v) == [kind |-> "ok", err |-> "", code |-> "-", val |-> v]
Err(e) == [kind |-> "err", err |-> e, code |-> "-", val |-> Absent]
ProcessExited(code) == [kind |-> "err", err |-> "ProcessExited", code |-> code, val |-> Absent]
\* anyhow!("Tool call error {}: {}", error.code, error.message): val is the
\* error object whose code and message the text carries
ToolError(e) == [kind |-> "err", err |-> "ToolInvocationError", code |-> "-", val |-> e]

\* a constructor that holds a process from the start
ProcessAtConstruction == CHOOSE p \in Procs : TRUE

\* PythonBridge::new: process: Arc::new(Mutex::new(None))
NewProcessField == None

Init ==
    /\ process = NewProcessField
    /\ procLock = None
    /\ initialized = FALSE
    /\ request_id = FirstRequestId
    /\ appLock = None
    /\ dropped = FALSE
    /\ spawned = 0
    /\ status = [p \in Procs |-> "none"]
    /\ exitCode = [p \in Procs |-> "-"]
    /\ killed = [p \in Procs |-> FALSE]
    /\ eof = [p \in Procs |-> FALSE]
    /\ stdout = [p \in Procs |-> <<>>]
    /\ wire = <<>>
    /\ pc = [c \in Callers |-> "idle"]
    /\ method = [c \in Callers |-> "-"]
    /\ reqId = [c \in Callers |-> UnsolicitedId]
    /\ ret = [c \in Callers |-> NoReturn]
    /\ response = [c \in Callers |-> NoResponse]
    /\ lastRead = NoExchange
    /\ calls = 0
    /\ shutdowns = 0

\* ------------------------------------------------------------- helpers
\* pipes written and read without taking the process mutex
LockIgnored == TRUE

\* tokio::sync::Mutex::lock().await on PythonBridge.process completes only
\* while no other task holds the guard
LockFree == procLock = None

\* a command handler that uses the bridge without locking AppState.bridge
AppLockIgnored == TRUE

\* AppState.bridge.lock().await in a command handler
AppLockFree == appLock = None

\* a guard taken for the write alone and dropped before the read
ReleasedAfterWrite(c) == None

\* the guard of call_raw lives until call_raw returns: it is still held
\* after the request has been written and flushed
HeldAcrossRead(c) == c

\* an initialize_mcp that does not look at the flag
FlagNotConsulted == FALSE

\* the test at the head of initialize_mcp
AlreadyInitialized == initialized

\* Child::kill through the handle of process p
Kill(k, p) == [k EXCEPT ![p] = TRUE]

\* a BridgeProcess without a Drop implementation
DropWithoutKill(k, p) == k

\* impl Drop for BridgeProcess
DropBridgeProcess(k, p) == Kill(k, p)

\* an empty read never cross-checked against the process
ExitNeverObserved(p) == FALSE

\* child.try_wait() returns a status: the process has exited
Exited(p) == status[p] = "exited"

\* Child::wait after kill: the process has exited when wait returns; the
\* handle goes out of scope and the pipes to the process are closed
Reaped(p) ==
    /\ status' = [status EXCEPT ![p] = "exited"]
    /\ exitCode' = [exitCode EXCEPT ![p] =
                       IF status[p] = "exited" THEN @ ELSE "signal"]
    /\ eof' = [eof EXCEPT ![p] = TRUE]
    /\ stdout' = [stdout EXCEPT ![p] = <<>>]

\* where an operation's caller continues when the operation returns
ReturnTo(c) == IF appLock = c THEN "respond" ELSE "done"

\* the operation returns r; its locals are gone
Return(c, r) ==
    /\ pc' = [pc EXCEPT ![c] = ReturnTo(c)]
    /\ ret' = [ret EXCEPT ![c] = r]
    /\ method' = [method EXCEPT ![c] = "-"]
    /\ reqId' = [reqId EXCEPT ![c] = UnsolicitedId]

Goto(c, l) ==
    /\ pc' = [pc EXCEPT ![c] = l]
    /\ UNCHANGED <<ret, method, reqId>>

Log(e) == wire' = Append(wire, e)

\* the child's end of the stdin pipe is open while the child runs; a write
\* to a pipe nobody reads fails (EPIPE)
StdinOpen(p) == p # None /\ status[p] = "running"

AllIdle == \A c \in Callers : pc[c] \in {"idle", "done"}

\* response.error is Some
HasError(body) == body.error # Absent

\* a call_tool that falls back to the result when the text is not JSON
NoDecodeError(result) == Ok(result)

\* call_tool: a text that is not JSON is an error, through `.context(...)`
DecodeError(result) == Err("EnvelopeDecodeError")

\* call_tool: serde_json::from_str(text) on the text of the first item
TextResult(result, text) ==
    LET r == ParseJson(text.s) IN IF r.ok THEN Ok(r.val) ELSE DecodeError(result)

\* a call_tool that insists on the content format
NoFallback(result) == Err("EnvelopeDecodeError")

\* call_tool: `return Ok(result)` when the content gave nothing
Fallback(result) == Ok(result)

\* a call_tool that looks at the text of the first item before its json
TextBeforeJson(json, text) == json # Absent /\ text = Absent

\* call_tool: `if let Some(json) = first.get("json")` comes first
JsonFirst(json, text) == json # Absent

\* call_tool: the MCP content format, { content: [{ json }] or [{ text }] }
Unwrap(result) ==
    LET first == First(AsArray(Get(result, "content")))
        json == Get(first, "json")
        text == AsStr(Get(first, "text"))
    IN  IF JsonFirst(json, text) THEN Ok(json)
        ELSE IF text # Absent THEN TextResult(result, text)
        ELSE Fallback(result)

\* a call_tool that looks at the result before the error
ResultBeforeError(body) == body.error # Absent /\ body.result = Absent

\* call_tool: `if let Some(error) = response.error` comes first
ErrorFirst(body) == HasError(body)

\* call_tool on a tools/call exchange that call_raw returned Ok
ToolResult(line) ==
    IF ErrorFirst(line.body) THEN ToolError(line.body.error)
    ELSE IF line.body.result # Absent THEN Unwrap(line.body.result)
    ELSE Err("EmptyToolResponse")

\* ------------------------------------------------ PythonBridge::call_tool
\* is_running(): the process mutex holds a handle
IsRunning == process # None

\* an ensure_process that logs the spawn error and returns Ok
SpawnFailureSwallowed(c) == Goto(c, "initialize_mcp")

\* cmd.spawn().context("Failed to spawn Python subprocess")?
SpawnFailure(c) == Return(c, Err("ProcessSpawnFailed"))

\* an ensure_process that spawns without looking at the stored handle
HandleNotChecked == FALSE

\* ensure_process: `if guard.is_some()` returns without spawning
HandleStored == process # None

\* ensure_process: under the process mutex, spawn unless a handle is stored
EnsureProcess(c) ==
    /\ LockFree
    /\ IF HandleStored
       THEN /\ Goto(c, "initialize_mcp")
            /\ UNCHANGED <<process, spawned, status>>
       ELSE \E spawnOk \in BOOLEAN :
              IF spawnOk
              THEN /\ spawned' = spawned + 1
                   /\ status' = [status EXCEPT ![spawned + 1] = "running"]
                   /\ process' = spawned + 1
                   /\ Goto(c, "initialize_mcp")
              ELSE /\ SpawnFailure(c)
                   /\ UNCHANGED <<process, spawned, status>>
    /\ UNCHANGED <<procLock, initialized, request_id, dropped,
                   exitCode, killed, eof, stdout, wire, lastRead, shutdowns,
                   response>>

\* call()/invoke() on the bridge: call_tool starts with ensure_process
CallStart(c) ==
    /\ pc[c] = "idle"
    /\ ~dropped
    /\ c = calls + 1
    /\ calls' = calls + 1
    /\ EnsureProcess(c)
    /\ UNCHANGED appLock

\* initialize_mcp, its head: return at once when the flag is set
InitializeCheck(c) ==
    /\ pc[c] = "initialize_mcp"
    /\ pc' = [pc EXCEPT ![c] = "call_raw"]
    /\ method' = [method EXCEPT ![c] =
                     IF AlreadyInitialized THEN "tools/call" ELSE "initialize"]
    /\ UNCHANGED <<bridgeVars, procVars, wire, reqId, ret, lastRead,
                   calls, shutdowns, response>>

\* a call_raw that reads the counter and leaves it as it is
RequestIdKept(n) == n

\* AtomicU64::fetch_add(1, ..): the counter after the call
NextRequestId(n) == n + 1

\* call_raw: request_id.fetch_add(1) returns the value before the addition
CallRawId(c) ==
    /\ pc[c] = "call_raw"
    /\ pc' = [pc EXCEPT ![c] = "cr_lock"]
    /\ reqId' = [reqId EXCEPT ![c] = request_id]
    /\ request_id' = NextRequestId(request_id)
    /\ UNCHANGED <<process, procLock, initialized, appLock, dropped,
                   procVars, wire, method, ret, lastRead, calls, shutdowns, response>>

\* call_raw: take the process mutex; "Process not running" without a handle
CallRawLock(c) ==
    /\ pc[c] = "cr_lock"
    /\ LockFree
    /\ IF process = None
       THEN /\ Return(c, Err("ProcessNotRunning"))
            /\ UNCHANGED <<procLock, wire>>
       ELSE /\ procLock' = c
            /\ Log(Ev("lock", c, method[c], reqId[c], "-"))
            /\ Goto(c, "cr_write")
    /\ UNCHANGED <<process, initialized, request_id, appLock, dropped,
                   procVars, lastRead, calls, shutdowns, response>>

\* writeln!(stdin, "{}", request_json): the text of the request
CallRawWrite(c) ==
    /\ pc[c] = "cr_write"
    /\ IF StdinOpen(process)
       THEN /\ Log(Ev("body", c, method[c], reqId[c], "-"))
            /\ Goto(c, "cr_newline")
            /\ UNCHANGED procLock
       ELSE /\ Return(c, Err("Io"))
            /\ procLock' = None
            /\ UNCHANGED wire
    /\ UNCHANGED <<process, initialized, request_id, appLock, dropped,
                   procVars, lastRead, calls, shutdowns, response>>

\* writeln!: the newline that ends the request, then stdin.flush()
CallRawNewline(c) ==
    /\ pc[c] = "cr_newline"
    /\ IF StdinOpen(process)
       THEN /\ Log(Ev("nl", c, method[c], reqId[c], "-"))
            /\ Goto(c, "cr_read")
            /\ procLock' = HeldAcrossRead(c)
       ELSE /\ Return(c, Err("Io"))
            /\ procLock' = None
            /\ UNCHANGED wire
    /\ UNCHANGED <<process, initialized, request_id, appLock, dropped,
                   procVars, lastRead, calls, shutdowns, response>>

\* a call_raw that hands the line to the parser without looking at its
\* length
EmptyNotChecked(line) == FALSE

\* call_raw: `if response_line.is_empty()`
EmptyRead(line) == line.empty

\* what call_raw makes of the line it read, for the request with this id
Outcome(p, line, id) ==
    IF EmptyRead(line)
    THEN IF Exited(p) THEN "ProcessExited" ELSE "EmptyResponse"
    ELSE IF ParseFails(line) THEN "MalformedResponse"
    ELSE IF ~IdMatches(line, id) THEN "ResponseIdMismatch"
    ELSE "ok"

\* how the exchange ended, as the wire records it
ReadResult(line, o) ==
    IF o # "ok" THEN "fail" ELSE IF HasError(line.body) THEN "error" ELSE "ok"

\* an initialize_mcp that does not look at the error of the response
HandshakeErrorIgnored(body) == FALSE

\* initialize_mcp: `if response.error.is_some()` fails the handshake
HandshakeRefused(body) == HasError(body)

\* a call_raw that reads the next line when it cannot use the one it read
ReadAgain(c, o) == Goto(c, "cr_read")

\* call_raw returns the error, and `?` in initialize_mcp and call_tool
\* returns it from the call
FailWith(c, o) == Return(c, Err(o))

\* what the caller of call_raw does with its result
AfterCallRaw(c, p, line, o) ==
    IF o = "ProcessExited" THEN Return(c, ProcessExited(exitCode[p]))
    ELSE IF o # "ok" THEN FailWith(c, o)
    ELSE IF method[c] = "initialize"
         THEN IF HandshakeRefused(line.body)
              THEN Return(c, Err("HandshakeFailed"))
              ELSE Goto(c, "notify_lock")
         ELSE Return(c, ToolResult(line))

\* a call_raw that forgets the handle of a process it found exited
HandleDroppedOnExit(o) == IF o = "ProcessExited" THEN None ELSE process

\* call_raw borrows the BridgeProcess (guard.as_mut()) and assigns nothing
\* to the Option that holds it, whatever the outcome of the exchange
HandleAfterRead(o) == process

\* call_raw: read_line on a new BufReader over the child's stdout, then the
\* checks on the line.  The BufReader takes what the pipe holds (up to its
\* capacity), hands out the first line and is dropped with the rest: n is
\* the number of lines it took from the pipe.
CallRawRead(c) ==
    /\ pc[c] = "cr_read"
    /\ process # None
    /\ LET p == process IN
       /\ stdout[p] # <<>> \/ eof[p]
       /\ \E n \in 0..Len(stdout[p]) :
            /\ (n = 0) = (stdout[p] = <<>>)
            /\ LET line == IF n = 0 THEN NoLine ELSE Head(stdout[p])
                   o == Outcome(p, line, reqId[c])
               IN /\ stdout' = [stdout EXCEPT ![p] = SubSeq(@, n + 1, Len(@))]
                  /\ Log(Ev("read", c, method[c], reqId[c], ReadResult(line, o)))
                  /\ lastRead' = [by |-> c, id |-> reqId[c], line |-> line,
                                  outcome |-> o]
                  /\ AfterCallRaw(c, p, line, o)
                  /\ process' = HandleAfterRead(o)
    /\ procLock' = None
    /\ UNCHANGED <<initialized, request_id, appLock, dropped,
                   spawned, status, exitCode, killed, eof, calls, shutdowns,
                   response>>

\* initialize_mcp: take the process mutex for the notification
NotifyLock(c) ==
    /\ pc[c] = "notify_lock"
    /\ LockFree
    /\ IF process = None
       THEN /\ Return(c, Err("ProcessNotRunning"))
            /\ UNCHANGED <<procLock, wire>>
       ELSE /\ procLock' = c
            /\ Log(Ev("lock", c, "notifications/initialized",
                               UnsolicitedId, "-"))
            /\ Goto(c, "notify_write")
    /\ UNCHANGED <<process, initialized, request_id, appLock, dropped,
                   procVars, lastRead, calls, shutdowns, response>>

\* an initialize_mcp that goes on to set the flag when the write of the
\* notification fails
NotifyFailureIgnored(c) == Goto(c, "set_initialized")

\* `?` on writeln! and on flush in the notification block: initialize_mcp
\* returns the I/O error, and `?` in call_tool returns it from the call
NotifyFailure(c) == Return(c, Err("Io"))

\* writeln!(stdin, "{}", notification_json): the text of the notification
NotifyWrite(c) ==
    /\ pc[c] = "notify_write"
    /\ IF StdinOpen(process)
       THEN /\ Log(Ev("body", c, "notifications/initialized",
                               UnsolicitedId, "-"))
            /\ Goto(c, "notify_newline")
            /\ UNCHANGED procLock
       ELSE /\ NotifyFailure(c)
            /\ procLock' = None
            /\ UNCHANGED wire
    /\ UNCHANGED <<process, initialized, request_id, appLock, dropped,
                   procVars, lastRead, calls, shutdowns, response>>

\* the newline of the notification, stdin.flush(), end of the guard's block
NotifyNewline(c) ==
    /\ pc[c] = "notify_newline"
    /\ IF StdinOpen(process)
       THEN /\ Log(Ev("nl", c, "notifications/initialized",
                               UnsolicitedId, "-"))
            /\ Goto(c, "set_initialized")
       ELSE /\ NotifyFailure(c)
            /\ UNCHANGED wire
    /\ procLock' = None
    /\ UNCHANGED <<process, initialized, request_id, appLock, dropped,
                   procVars, lastRead, calls, shutdowns, response>>

\* *self.initialized.lock().await = true, then call_tool goes on to tools/call
SetInitialized(c) ==
    /\ pc[c] = "set_initialized"
    /\ initialized' = TRUE
    /\ pc' = [pc EXCEPT ![c] = "call_raw"]
    /\ method' = [method EXCEPT ![c] = "tools/call"]
    /\ UNCHANGED <<process, procLock, request_id, appLock, dropped,
                   procVars, wire, reqId, ret, lastRead, calls, shutdowns, response>>

\* ------------------------------------------------- PythonBridge::shutdown
ShutdownStart(c) ==
    /\ pc[c] = "idle"
    /\ ~dropped
    /\ c = MaxCalls + shutdowns + 1
    /\ shutdowns' = shutdowns + 1
    /\ pc' = [pc EXCEPT ![c] = "shutdown"]
    /\ ret' = ret
    /\ UNCHANGED <<bridgeVars, procVars, wire, method, reqId, lastRead, calls,
                   response>>

\* a shutdown that fails when there is nothing to shut down
ErrorWhenNotRunning(running) ==
    IF running THEN Ok(Unit) ELSE Err("ProcessNotRunning")

\* shutdown returns Ok(()) whether or not guard.take() gave a process
ShutdownResult(running) == Ok(Unit)

\* under the process mutex: take the handle, kill, wait, drop it
Shutdown(c) ==
    /\ pc[c] = "shutdown"
    /\ LockFree
    /\ IF process # None
       THEN /\ killed' = DropBridgeProcess(Kill(killed, process), process)
            /\ Reaped(process)
            /\ process' = None
            /\ wire' = <<>>
       ELSE UNCHANGED <<process, killed, status, exitCode, eof, stdout, wire>>
    /\ Return(c, ShutdownResult(IsRunning))
    /\ UNCHANGED <<procLock, initialized, request_id, appLock, dropped,
                   spawned, lastRead, calls, shutdowns, response>>

\* the PythonBridge is destroyed (no task borrows it): its fields are
\* dropped, and with them the BridgeProcess it still holds
DropBridge ==
    /\ ~dropped
    /\ AllIdle
    /\ dropped' = TRUE
    /\ process' = None
    /\ killed' = IF process # None THEN DropBridgeProcess(killed, process)
                 ELSE killed
    /\ wire' = <<>>
    /\ UNCHANGED <<procLock, initialized, request_id, appLock,
                   spawned, status, exitCode, eof, stdout, callerVars>>

\* ------------------------------------------------------------ the backend
\* the request the process received last
LatestReceived ==
    LET sent == {j \in 1..Len(wire) :
                    wire[j].ev = "nl"
                    /\ wire[j].method # "notifications/initialized"}
    IN  IF sent = {} THEN {}
        ELSE {wire[CHOOSE j \in sent : \A k \in sent : k <= j].id}

\* what a backend may print: an answer (result or error) to the request it
\* received last, which is a repeated answer the second time and a stale one
\* once the next request is written; an answer nobody asked for; something
\* that is no response
BackendLines ==
    {ResponseLine(i, b) : i \in LatestReceived, b \in {PlainResult, ErrorReply}}
    \cup {ResponseLine(UnsolicitedId, PlainResult), Garbage}

BackendEmit(p) ==
    /\ p = process
    /\ status[p] = "running"
    /\ ~eof[p]
    /\ Len(stdout[p]) < MaxPipe
    /\ \E line \in BackendLines :
         stdout' = [stdout EXCEPT ![p] = Append(@, line)]
    /\ UNCHANGED <<bridgeVars, spawned, status, exitCode, killed, eof,
                   wire, callerVars>>

\* the backend closes its stdout and keeps running
BackendCloseStdout(p) ==
    /\ status[p] = "running"
    /\ ~killed[p]
    /\ ~eof[p]
    /\ eof' = [eof EXCEPT ![p] = TRUE]
    /\ UNCHANGED <<bridgeVars, spawned, status, exitCode, killed, stdout,
                   wire, callerVars>>

\* the backend process ends: by itself, or by the signal sent to it
BackendExit(p) ==
    /\ status[p] = "running"
    /\ status' = [status EXCEPT ![p] = "exited"]
    /\ exitCode' = [exitCode EXCEPT ![p] =
                       IF killed[p] THEN "signal" ELSE "code"]
    /\ eof' = [eof EXCEPT ![p] = TRUE]
    /\ UNCHANGED <<bridgeVars, spawned, killed, stdout, wire, callerVars>>

Backend == \E p \in Procs : BackendEmit(p) \/ BackendCloseStdout(p) \/ BackendExit(p)

\* ------------------------------------------- the backend's tool responses
\* every sequence over S of length at most n
SeqsUpTo(S, n) == UNION {[1..k -> S] : k \in 0..n}

Texts == SeqsUpTo(JsonTokens, MaxText)

\* an item of a content array: an object with a json member, a text member,
\* both or none
Item(j, x) ==
    LET keys == (IF j = Absent THEN {} ELSE {"json"})
                    \cup (IF x = Absent THEN {} ELSE {"text"})
    IN  JObject([k \in keys |-> IF k = "json" THEN j ELSE x])

ItemJsons == {Absent, JNull, JArray(<<JNumber>>)}
ItemTexts == {Absent, JNumber} \cup {JString(s) : s \in Texts}
Items == {Item(j, x) : j \in ItemJsons, x \in ItemTexts}

\* what a result may carry as content: nothing, something that is no array,
\* an empty array, an array whose first item is no object, and arrays of one
\* and of two items
Contents ==
    {Absent, JNumber, JString(<<"1">>), JArray(<<>>), JArray(<<JNumber>>)}
    \cup {JArray(<<i>>) : i \in Items}
    \cup {JArray(<<i, Item(JNull, JString(<<"1">>))>>) :
              i \in {Item(j, x) : j \in ItemJsons, x \in {Absent, JNumber}}}

ResultWith(c) ==
    IF c = Absent THEN PlainResult.result ELSE JObject([content |-> c])

Results == {Absent, JNumber} \cup {ResultWith(c) : c \in Contents}

\* a response with a result, with an error, with both, or with neither
ToolBodies ==
    {Body(Absent, r) : r \in Results}
    \cup {Body(ErrorReply.error, r) :
              r \in {Absent, PlainResult.result,
                     ResultWith(JArray(<<Item(JNull, Absent)>>))}}

\* the request the process received last
LatestRequest ==
    {wire[j] : j \in {k \in 1..Len(wire) : wire[k].ev = "nl" /\ wire[k].id \in LatestReceived}}

\* a backend that answers every request once, with the request's id: the
\* initialize request with a result or an error, a tools/call request with
\* any body
BackendAnswer(p) ==
    /\ p = process
    /\ status[p] = "running"
    /\ ~eof[p]
    /\ stdout[p] = <<>>
    /\ \E e \in LatestRequest :
         /\ lastRead.id # e.id
         /\ \E b \in (IF e.method = "initialize" THEN {PlainResult, ErrorReply}
                       ELSE ToolBodies) :
              stdout' = [stdout EXCEPT ![p] = <<ResponseLine(e.id, b)>>]
    /\ UNCHANGED <<bridgeVars, spawned, status, exitCode, killed, eof,
                   wire, callerVars>>

CallSteps(c) ==
    \/ InitializeCheck(c)
    \/ CallRawId(c)
    \/ CallRawLock(c)
    \/ CallRawWrite(c)
    \/ CallRawNewline(c)
    \/ CallRawRead(c)
    \/ NotifyLock(c)
    \/ NotifyWrite(c)
    \/ NotifyNewline(c)
    \/ SetInitialized(c)

\* ---------------------------------------------------- command handlers
\* a command handler (tasks_list and the others): state.bridge.lock().await,
\* then bridge.invoke(...), which starts with ensure_process
HandlerEnter(c) ==
    /\ pc[c] = "idle"
    /\ ~dropped
    /\ c = calls + 1
    /\ AppLockFree
    /\ appLock' = c
    /\ calls' = calls + 1
    /\ pc' = [pc EXCEPT ![c] = "ensure_process"]
    /\ UNCHANGED <<process, procLock, initialized, request_id, dropped,
                   procVars, wire, method, reqId, ret, lastRead, shutdowns,
                   response>>

HandlerEnsureProcess(c) ==
    /\ pc[c] = "ensure_process"
    /\ EnsureProcess(c)
    /\ UNCHANGED <<appLock, calls>>

\* a handler that answers success whatever bridge.invoke returned
ErrorAsSuccess(r) ==
    [success |-> TRUE, error |-> "-", result |-> r.val, answered |-> TRUE]

\* the match on the result of bridge.invoke: Ok gives success with the
\* result, Err gives success: false, no result and the error's text
\* (e.to_string())
HandlerResponse(r) ==
    IF r.kind = "ok"
    THEN [success |-> TRUE, error |-> "-", result |-> r.val, answered |-> TRUE]
    ELSE [success |-> FALSE, error |-> r.err, result |-> Absent,
          answered |-> TRUE]

\* the guard on AppState.bridge is dropped when the handler returns
HandlerRespond(c) ==
    /\ pc[c] = "respond"
    /\ response' = [response EXCEPT ![c] = HandlerResponse(ret[c])]
    /\ appLock' = None
    /\ pc' = [pc EXCEPT ![c] = "done"]
    /\ UNCHANGED <<process, procLock, initialized, request_id, dropped,
                   procVars, wire, method, reqId, ret, lastRead, calls,
                   shutdowns>>

\* ai_intent: the table from intent names to tool names; NoTool stands for
\* the `_` arm of the match
NoTool == "-"
IntentTable ==
    [context |-> "tasks_context", create |-> "tasks_create",
     decompose |-> "tasks_decompose", define |-> "tasks_define",
     verify |-> "tasks_verify", progress |-> "tasks_progress",
     done |-> "tasks_done", complete |-> "tasks_complete",
     delete |-> "tasks_delete", storage |-> "tasks_storage",
     undo |-> "tasks_undo", redo |-> "tasks_redo",
     history |-> "tasks_history", next |-> "tasks_next",
     suggest |-> "tasks_macro_suggest"]
ToolName(intent) ==
    IF intent \in DOMAIN IntentTable THEN IntentTable[intent] ELSE NoTool

\* the intent names a frontend may pass: those of the table, one that
\* differs from a name of the table in case, a tool name, the empty string
Intents == DOMAIN IntentTable \cup {"Context", "tasks_context", ""}

\* ai_intent, the `_` arm: success: false, error "Unknown intent: ..."
UnknownIntentResponse ==
    [success |-> FALSE, error |-> "UnknownIntent", result |-> Absent,
     answered |-> TRUE]

\* ai_intent: lock AppState.bridge, look the intent up; an unknown intent
\* returns at once (the guard is dropped), a known one goes on to
\* bridge.invoke(tool_name, ..)
AiIntent(c) ==
    \E intent \in Intents :
        IF ToolName(intent) = NoTool
        THEN /\ pc[c] = "idle"
             /\ ~dropped
             /\ c = calls + 1
             /\ AppLockFree
             /\ calls' = calls + 1
             /\ response' = [response EXCEPT ![c] = UnknownIntentResponse]
             /\ pc' = [pc EXCEPT ![c] = "done"]
             /\ UNCHANGED <<bridgeVars, procVars, wire, method, reqId, ret,
                            lastRead, shutdowns>>
        ELSE HandlerEnter(c)

\* ------------------------------------------------------- specifications
\* tasks that share one PythonBridge through &self: calls that race with
\* each other and with up to MaxRacingShutdowns shutdowns
RacingShutdownStart(c) == shutdowns < MaxRacingShutdowns /\ ShutdownStart(c)

Next ==
    \/ \E c \in CallTasks : CallStart(c) \/ CallSteps(c)
    \/ \E c \in ShutdownTasks : RacingShutdownStart(c) \/ Shutdown(c)
    \/ DropBridge
    \/ Backend

Spec == Init /\ [][Next]_vars

\* the bridge used by one task at a time: an operation is invoked when the
\* one before it has returned
SeqCallStart(c) == AllIdle /\ CallStart(c)

SeqShutdownStart(c) == AllIdle /\ ShutdownStart(c)

SeqNext ==
    \/ \E c \in CallTasks : SeqCallStart(c) \/ CallSteps(c)
    \/ \E c \in ShutdownTasks : SeqShutdownStart(c) \/ Shutdown(c)
    \/ DropBridge
    \/ Backend

SeqSpec == Init /\ [][SeqNext]_vars

\* the application: every use of the bridge is a command handler's
AppNext ==
    \/ \E c \in CallTasks :
          \/ HandlerEnter(c) \/ AiIntent(c)
          \/ HandlerEnsureProcess(c) \/ CallSteps(c) \/ HandlerRespond(c)
    \/ DropBridge
    \/ Backend

AppSpec == Init /\ [][AppNext]_vars

\* a backend that prints lines ahead of the reads: up to MaxBacklog lines
\* wait in the pipe
BackendEmitAhead(p) ==
    /\ p = process
    /\ status[p] = "running"
    /\ ~eof[p]
    /\ Len(stdout[p]) < MaxBacklog
    /\ \E line \in BackendLines :
         stdout' = [stdout EXCEPT ![p] = Append(@, line)]
    /\ UNCHANGED <<bridgeVars, spawned, status, exitCode, killed, eof,
                   wire, callerVars>>

\* calls made one after the other to a backend that prints ahead
PipeNext ==
    \/ \E c \in CallTasks : SeqCallStart(c) \/ CallSteps(c)
    \/ \E p \in Procs : BackendEmitAhead(p)

PipeSpec == Init /\ [][PipeNext]_vars

\* calls made one after the other to a backend that answers every request
EnvNext ==
    \/ \E c \in CallTasks : SeqCallStart(c) \/ CallSteps(c)
    \/ \E p \in Procs : BackendAnswer(p)

EnvSpec == Init /\ [][EnvNext]_vars

\* The async runtime polls a task that can go on, a blocking read returns
\* once the pipe holds a line or is closed, and a process that was sent the
\* kill signal ends.  Nothing makes a backend answer, and nothing makes a
\* caller call.
KilledExits == \E p \in Procs : killed[p] /\ BackendExit(p)

Fairness ==
    /\ \A c \in CallTasks : WF_vars(CallSteps(c))
    /\ \A c \in ShutdownTasks : WF_vars(Shutdown(c))
    /\ WF_vars(KilledExits)

\* calls made one after the other, and shutdown invoked at any time, also
\* while a call is in progress
NoCallInProgress == \A c \in CallTasks : pc[c] \in {"idle", "done"}

CallStartAfterCall(c) == NoCallInProgress /\ CallStart(c)

LiveNext ==
    \/ \E c \in CallTasks : CallStartAfterCall(c) \/ CallSteps(c)
    \/ \E c \in ShutdownTasks : RacingShutdownStart(c) \/ Shutdown(c)
    \/ DropBridge
    \/ Backend

FairSpec == Init /\ [][LiveNext]_vars /\ Fairness

\* ================================================================ claims
IsRequest(e) == e.method \in {"initialize", "tools/call"}
IsNotification(e) == e.method = "notifications/initialized"
SameMessage(e, f) == e.by = f.by /\ e.method = f.method /\ e.id = f.id

\* C1: an exchange succeeds only if the line it read carries the id of the
\* request it wrote; when the line is a response with another id, call_raw
\* fails with ResponseIdMismatch and the task that made the exchange gets
\* that error, not a result.
C1_ResponsePairedById ==
    /\ lastRead.outcome = "ok" =>
          lastRead.line.json /\ lastRead.line.id = lastRead.id
    /\ (lastRead.line.json /\ lastRead.line.id # lastRead.id) =>
          /\ lastRead.outcome = "ResponseIdMismatch"
          /\ pc[lastRead.by] = "done"
          /\ ret[lastRead.by] = Err("ResponseIdMismatch")

\* a task read the stale answer to an earlier request and was refused
C1_Witness ==
    /\ lastRead.line.json
    /\ lastRead.line.id \in Ids
    /\ lastRead.line.id # lastRead.id
    /\ ret[lastRead.by] = Err("ResponseIdMismatch")

\* C3: no tools/call request is written to a process before an initialize
\* request was written to that process, answered without error, and followed
\* by the initialized notification written to that process.
HandshakeDoneBefore(i) ==
    \E a, b, n \in 1..(i - 1) :
        /\ a < b /\ b < n
        /\ wire[a].ev = "nl" /\ wire[a].method = "initialize"
        /\ wire[b].ev = "read" /\ wire[b].res = "ok" /\ SameMessage(wire[a], wire[b])
        /\ wire[n].ev = "nl" /\ IsNotification(wire[n])

C3_NoToolCallBeforeHandshake ==
    \A i \in 1..Len(wire) :
        (wire[i].ev = "body" /\ wire[i].method = "tools/call")
            => HandshakeDoneBefore(i)

\* C2: a process spawned after a shutdown is sent an initialize request and
\* the initialized notification before the tools/call request of the call
\* that spawned it.
C2_RespawnRunsHandshake ==
    (process # None /\ process > 1) =>
        \A i \in 1..Len(wire) :
            (wire[i].ev = "body" /\ wire[i].method = "tools/call") =>
                \E a, n \in 1..(i - 1) :
                    /\ a < n
                    /\ wire[a].ev = "nl" /\ wire[a].method = "initialize"
                    /\ wire[n].ev = "nl" /\ IsNotification(wire[n])

\* C4: once the handshake has been completed on a process (the notification
\* is written), later calls made one after the other write no further
\* initialize request and no further notification to it, and at most one
\* initialize exchange on it succeeds.
C4_HandshakeOncePerProcess ==
    /\ \A i, j \in 1..Len(wire) :
          (i < j /\ wire[i].ev = "nl" /\ IsNotification(wire[i]))
              => wire[j].method = "tools/call"
    /\ Cardinality({i \in 1..Len(wire) :
          wire[i].ev = "read" /\ wire[i].method = "initialize"
          /\ wire[i].res = "ok"}) <= 1

\* two calls in a row on one process: the second wrote its tools/call request
\* after the notification of the first
C4_Witness ==
    \E i, j \in 1..Len(wire) :
        /\ i < j
        /\ wire[i].ev = "nl" /\ IsNotification(wire[i])
        /\ wire[j].ev = "nl" /\ wire[j].method = "tools/call"
        /\ wire[j].by # wire[i].by

\* C5: when the process has exited while a call waits for the response and
\* its stdout holds no line, the call returns, and what it returns is the
\* process-exited error with the exit status of the process.
C5_ExitedBackendEndsCall ==
    \A c \in CallTasks : \A p \in Procs :
        (pc[c] = "cr_read" /\ process = p /\ status[p] = "exited" /\ stdout[p] = <<>>)
            ~> (pc[c] = "done" /\ ret[c] = ProcessExited(exitCode[p]))

\* a request was written, the process exited, and the call got the error
C5_Witness ==
    \E c \in CallTasks :
        /\ pc[c] = "done"
        /\ ret[c].err = "ProcessExited"
        /\ lastRead.by = c /\ lastRead.line = NoLine

\* C6: a shutdown invoked while a call is blocked reading the response
\* completes.
C6_ShutdownEndsStalledCall ==
    \A c \in CallTasks : \A s \in ShutdownTasks :
        (pc[c] = "cr_read" /\ pc[s] = "shutdown") ~> (pc[s] = "done")

\* C7: the bytes written to stdin form complete lines, each written by one
\* task, in the order in which the tasks took the lock: the text of a message
\* is written by the task that took the lock last, its newline follows it
\* with nothing in between, and a text is left without its newline only when
\* the write of the newline failed, after which no write succeeds.
C7_WritesNotInterleaved ==
    \A i \in 1..Len(wire) :
        /\ wire[i].ev = "body" =>
              /\ i > 1 /\ wire[i - 1].ev = "lock" /\ SameMessage(wire[i - 1], wire[i])
              /\ i < Len(wire) =>
                    \/ wire[i + 1].ev = "nl"
                    \/ \A j \in (i + 1)..Len(wire) : wire[j].ev = "lock"
        /\ wire[i].ev = "nl" =>
              i > 1 /\ wire[i - 1].ev = "body" /\ SameMessage(wire[i - 1], wire[i])

\* two tasks, both past the handshake check at once, wrote their requests
C7_Witness ==
    \E i, j \in 1..Len(wire) :
        /\ i < j
        /\ wire[i].ev = "nl" /\ wire[j].ev = "nl"
        /\ wire[i].by # wire[j].by
        /\ pc[wire[i].by] # "done"

\* C8: between the newline of a request and the read of its response nothing
\* else happens on the pipes: the read follows, by the same task for the same
\* request, and no read happens but right after the request it answers.
C8_OneRequestInFlight ==
    \A i \in 1..Len(wire) :
        /\ (wire[i].ev = "nl" /\ IsRequest(wire[i]) /\ i < Len(wire)) =>
              wire[i + 1].ev = "read" /\ SameMessage(wire[i], wire[i + 1])
        /\ wire[i].ev = "read" =>
              i > 1 /\ wire[i - 1].ev = "nl" /\ SameMessage(wire[i - 1], wire[i])

\* a request is in flight while another task waits for the lock
C8_Witness ==
    \E c, d \in CallTasks :
        /\ pc[c] = "cr_read"
        /\ pc[d] \in {"cr_lock", "notify_lock"}
        /\ wire[Len(wire)].ev = "nl"

\* C9: a command handler holds the lock on AppState.bridge from before
\* ensure_process until after the response is read, so at most one handler
\* is inside a call at any time.
InCall == {c \in CallTasks : pc[c] \notin {"idle", "done"}}

C9_HandlersSerialized ==
    /\ Cardinality(InCall) <= 1
    /\ \A c \in InCall : appLock = c

\* a handler waits for the response while another one has been through
C9_Witness ==
    \E c, d \in CallTasks :
        /\ pc[c] = "cr_read" /\ appLock = c
        /\ response[d].answered

\* C10: every process the bridge spawned and no longer holds has been sent
\* the kill signal.
C10_NoOrphanProcess ==
    \A p \in 1..spawned : p # process => killed[p]

\* the bridge was destroyed without any shutdown while its process ran
C10_Witness ==
    /\ dropped
    /\ shutdowns = 0
    /\ \E p \in 1..spawned : status[p] = "running" /\ killed[p]

\* ------------------------------------------------ results of a tools/call
\* the latest thing on the pipes is the read of a tools/call response that
\* call_raw accepted; Answer is its body, Returned what the call returned
ToolExchange ==
    /\ wire # <<>>
    /\ wire[Len(wire)].ev = "read"
    /\ wire[Len(wire)].method = "tools/call"
    /\ lastRead.by = wire[Len(wire)].by
    /\ lastRead.outcome = "ok"

Answer == lastRead.line.body
Returned == ret[lastRead.by]

HasMember(v, k) == v.t = "object" /\ k \in DOMAIN v.fields

\* the result has a content array with a first item
HasFirstItem(r) ==
    /\ HasMember(r, "content")
    /\ r.fields.content.t = "array"
    /\ r.fields.content.items # <<>>

FirstItem(r) == r.fields.content.items[1]

HasStringText(item) == HasMember(item, "text") /\ item.fields.text.t = "string"

\* the JSON text of a value: serde_json::to_string
RECURSIVE ToText(_)
RECURSIVE Joined(_)
Joined(items) ==
    IF items = <<>> THEN <<>>
    ELSE IF Len(items) = 1 THEN ToText(items[1])
    ELSE ToText(items[1]) \o <<",">> \o Joined(Tail(items))

ToText(v) ==
    IF v.t = "array" THEN <<"[">> \o Joined(v.items) \o <<"]">> ELSE <<"1">>

\* numbers, arrays of them and arrays of those, of at most two elements:
\* every value whose text has at most four tokens is one of these
ArraysOver(S) == {JArray(q) : q \in SeqsUpTo(S, 2)}
FlatValues == {JNumber} \cup ArraysOver({JNumber})
TextValues == FlatValues \cup ArraysOver(FlatValues)

\* C11: a successful response whose result has a content array: when the
\* first item has a json member the call returns that value, whether or not
\* the item has a text member too; when it has no json member but a string
\* text, the call returns the value the text is the JSON text of, and fails
\* with the envelope-decode error when the text is the JSON text of nothing.
C11_EnvelopeUnwrapped ==
    (ToolExchange /\ Answer.error = Absent /\ HasFirstItem(Answer.result)) =>
        LET item == FirstItem(Answer.result) IN
        /\ HasMember(item, "json") => Returned = Ok(item.fields.json)
        /\ (~HasMember(item, "json") /\ HasStringText(item)) =>
              /\ \A v \in TextValues :
                    ToText(v) = item.fields.text.s => Returned = Ok(v)
              /\ (\A v \in TextValues : ToText(v) # item.fields.text.s) =>
                    Returned = Err("EnvelopeDecodeError")

\* the text "[1]" of the first item came back as the array of one number
C11_Witness ==
    /\ ToolExchange /\ Answer.error = Absent /\ HasFirstItem(Answer.result)
    /\ ~HasMember(FirstItem(Answer.result), "json")
    /\ HasStringText(FirstItem(Answer.result))
    /\ FirstItem(Answer.result).fields.text.s = <<"[", "1", "]">>
    /\ Returned = Ok(JArray(<<JNumber>>))

\* the content of the result gives a value: a first item that is an object
\* with a json member or with a string text
Usable(r) ==
    /\ HasFirstItem(r)
    /\ HasMember(FirstItem(r), "json") \/ HasStringText(FirstItem(r))

\* C12: a successful response whose result has no usable content (no
\* content member, a content that is no array, an empty array, a first item
\* with neither a json member nor a string text): the call returns the whole
\* result.
C12_EnvelopeFallback ==
    (ToolExchange /\ Answer.error = Absent /\ Answer.result # Absent
     /\ ~Usable(Answer.result)) => Returned = Ok(Answer.result)

\* a result with an empty content array came back whole
C12_Witness ==
    /\ ToolExchange /\ Answer.error = Absent
    /\ Answer.result = ResultWith(JArray(<<>>))
    /\ Returned = Ok(Answer.result)

\* C13: a response with an error makes the call fail with the tool-invocation
\* error that carries the error's code and message, also when it has a
\* result; a response with neither makes it fail with the empty-response
\* error.
C13_ErrorResponseFails ==
    ToolExchange =>
        /\ Answer.error # Absent => Returned = ToolError(Answer.error)
        /\ (Answer.error = Absent /\ Answer.result = Absent) =>
              Returned = Err("EmptyToolResponse")

\* a response with an error and a result made the call fail
C13_Witness ==
    /\ ToolExchange
    /\ Answer.error # Absent /\ Answer.result # Absent
    /\ Returned.kind = "err" /\ Returned.val.code = -32000

\* C14: when the response to initialize carries an error, the call fails,
\* the session stays uninitialized, that call writes nothing more (no
\* notification, no tools/call), and the next call starts with an initialize
\* request again.
C14_RefusedHandshakeIsRetried ==
    \A i \in 1..Len(wire) :
        (wire[i].ev = "read" /\ wire[i].method = "initialize"
         /\ wire[i].res = "error") =>
            /\ pc[wire[i].by] = "done"
            /\ ret[wire[i].by] = Err("HandshakeFailed")
            /\ \A j \in (i + 1)..Len(wire) : wire[j].by # wire[i].by
            /\ i = Len(wire) => ~initialized
            /\ i < Len(wire) =>
                  wire[i + 1].ev = "lock" /\ wire[i + 1].method = "initialize"

\* a call whose handshake was refused, and the next call's initialize
\* request written to the same process
C14_Witness ==
    \E i, j \in 1..Len(wire) :
        /\ i < j
        /\ wire[i].ev = "read" /\ wire[i].method = "initialize"
        /\ wire[i].res = "error"
        /\ wire[j].ev = "nl" /\ wire[j].method = "initialize"
        /\ wire[j].by # wire[i].by

\* C15: a call that starts while the session holds no process makes one
\* spawn attempt: either the process is spawned and stored, or the call
\* fails with the spawn error and leaves the session unstarted (no handle,
\* is_running() false, initialized as it was, nothing spawned, nothing
\* written); the same holds for every later call, which attempts the spawn
\* again.
C15_SpawnFailureLeavesUnstarted ==
    [][\A c \in CallTasks :
          (pc[c] = "idle" /\ pc'[c] # "idle" /\ ~IsRunning) =>
              \/ /\ spawned' = spawned + 1
                 /\ process' = spawned'
                 /\ pc'[c] = "initialize_mcp"
              \/ /\ ret'[c] = Err("ProcessSpawnFailed")
                 /\ pc'[c] \in {"done", "respond"}
                 /\ ~IsRunning'
                 /\ UNCHANGED <<initialized, wire, procVars>>]_vars

\* the first call failed to spawn, a later call spawned the first process
C15_Witness ==
    /\ ret[1] = Err("ProcessSpawnFailed")
    /\ spawned = 1 /\ IsRunning
    /\ \E c \in CallTasks : c > 1 /\ pc[c] = "initialize_mcp"

\* C16: a call writes at most one initialize request and at most one
\* tools/call request and reads at most one line for each; it allocates at
\* most two request ids; and a read that call_raw made an error of (no line,
\* a malformed line, another id) is the last thing the call does on the
\* pipes: the call has returned that error.
C16_NoRetryInsideCall ==
    /\ request_id - FirstRequestId <= 2 * calls
    /\ \A c \in CallTasks : \A m \in {"initialize", "tools/call"} :
          \A k \in {"body", "nl", "read"} :
              Cardinality({i \in 1..Len(wire) :
                  wire[i].by = c /\ wire[i].method = m /\ wire[i].ev = k}) <= 1
    /\ \A i \in 1..Len(wire) :
          (wire[i].ev = "read" /\ wire[i].res = "fail") =>
              /\ pc[wire[i].by] = "done"
              /\ ret[wire[i].by].kind = "err"
              /\ \A j \in (i + 1)..Len(wire) : wire[j].by # wire[i].by

\* a call returned the malformed-response error while the next line of the
\* backend waits unread
C16_Witness ==
    /\ lastRead.outcome = "MalformedResponse"
    /\ pc[lastRead.by] = "done"
    /\ ret[lastRead.by] = Err("MalformedResponse")
    /\ IsRunning /\ stdout[process] # <<>>

\* C17: a new bridge holds no process and nothing is spawned before the
\* first call; and is_running() is true exactly when the session holds the
\* handle of a process that was spawned.
C17_LazySpawn ==
    /\ calls = 0 => (~IsRunning /\ spawned = 0)
    /\ IsRunning <=> process \in 1..spawned

\* a shutdown has come and gone before the first call: still no process
C17_Witness ==
    /\ calls = 0
    /\ \E s \in ShutdownTasks : pc[s] = "done" /\ ret[s] = Ok(Unit)
    /\ ~IsRunning /\ spawned = 0

\* C18: every shutdown succeeds and leaves the session without a process
\* handle (is_running() false), and a shutdown that finds no process changes
\* nothing of the session; so a second shutdown in a row leaves the session
\* as the first one left it.
C18_ShutdownIdempotent ==
    [][\A s \in ShutdownTasks :
          (pc[s] = "shutdown" /\ pc'[s] = "done") =>
              /\ ret'[s] = Ok(Unit)
              /\ ~IsRunning'
              /\ ~IsRunning =>
                    UNCHANGED <<process, initialized, request_id, procVars, wire>>]_vars

\* two shutdowns and a call: one shutdown killed the process of the call,
\* the other found no process
C18_Witness ==
    /\ \A s \in ShutdownTasks : pc[s] = "done" /\ ret[s] = Ok(Unit)
    /\ calls = 1 /\ spawned = 1 /\ killed[1]
    /\ ~IsRunning

\* C19: once a call has returned the process-exited error, the session does
\* not hold the handle of that process any more: the process the session
\* holds is never one on which a call observed the exit.
C19_HandleDroppedOnObservedExit ==
    IsRunning =>
        \A i \in 1..Len(wire) :
            ~(/\ wire[i].ev = "read"
              /\ pc[wire[i].by] = "done"
              /\ ret[wire[i].by].err = "ProcessExited")

\* a step that reads a response
ReadStep ==
    /\ Len(wire') = Len(wire) + 1
    /\ wire'[Len(wire')].ev = "read"

\* C20: a read of a response takes exactly one line from the stdout of the
\* process: it returns the first unread line, and the lines after it stay in
\* the pipe, in order, for the reads that follow.
C20_ReadConsumesOneLine ==
    [][(ReadStep /\ IsRunning /\ stdout[process] # <<>>) =>
          /\ lastRead'.line = Head(stdout[process])
          /\ stdout'[process] = Tail(stdout[process])]_vars

\* a read that finds the stdout of the process at end of file
EofRead ==
    /\ ReadStep
    /\ process # None
    /\ stdout[process] = <<>>

\* C21: when a read returns nothing (end of file on the stdout of the
\* process), the call fails, and with which error depends on the liveness
\* probe alone: the process-exited error, with the exit status, when the
\* process has exited and the empty-response error when it has not; the
\* line is neither parsed nor compared with the id of the request.
C21_EofErrorFollowsProbe ==
    [][EofRead =>
         LET c == lastRead'.by
             o == lastRead'.outcome
         IN /\ lastRead'.line = NoLine
            /\ pc'[c] = ReturnTo(c)
            /\ o \notin {"MalformedResponse", "ResponseIdMismatch", "ok"}
            /\ IF status[process] = "exited"
               THEN /\ o = "ProcessExited"
                    /\ ret'[c] = ProcessExited(exitCode[process])
               ELSE /\ o = "EmptyResponse"
                    /\ ret'[c] = Err("EmptyResponse")]_vars

\* a call failed with the empty-response error: its read found end of file
\* on the stdout of a process that is still running
C21_Witness ==
    /\ lastRead.line = NoLine
    /\ lastRead.outcome = "EmptyResponse"
    /\ process # None /\ status[process] = "running" /\ eof[process]
    /\ ret[lastRead.by] = Err("EmptyResponse")

\* the tasks that take a request id in this step
Allocating == {c \in CallTasks : reqId'[c] # reqId[c] /\ reqId'[c] # UnsolicitedId}

\* C22: the request ids of a bridge come from one counter that starts at
\* FirstRequestId and only grows: an allocation takes the value of the
\* counter and adds one to it, so the ids are allocated in strictly
\* increasing order and no two requests carry the same id, whatever failed
\* and whatever was shut down and respawned in between.
C22_RequestIdsUnique ==
    [][/\ request_id' >= request_id
       /\ request_id >= FirstRequestId
       /\ request_id' # request_id => Allocating # {}
       /\ \A c \in Allocating :
            /\ reqId'[c] = request_id
            /\ request_id' = request_id + 1
            /\ \A d \in Callers : reqId[d] < reqId'[c]
            /\ \A i \in DOMAIN wire : wire[i].id < reqId'[c]
       /\ (Len(wire') = Len(wire) + 1 /\ wire'[Len(wire')].ev = "lock"
             /\ IsRequest(wire'[Len(wire')]))
          => \A i \in DOMAIN wire : wire[i].id # wire'[Len(wire')].id
      ]_vars

\* the second process, spawned after a shutdown, has been sent a request
\* whose id continues the count of the requests to the first, one of which
\* failed
C22_Witness ==
    /\ process = 2 /\ killed[1]
    /\ \E c \in CallTasks : ret[c].kind = "err"
    /\ \E i \in DOMAIN wire :
         /\ wire[i].ev = "nl" /\ IsRequest(wire[i])
         /\ wire[i].id > FirstRequestId

\* the latest entry of the wire, before and after the step
Latest == wire[Len(wire)]
Appended == wire'[Len(wire')]

\* C23: the initialized notification is fire-and-forget.  It is written only
\* after the response to initialize was read without error; it carries no
\* id and takes none from the counter; no line is read for it: a read
\* follows the newline of a request only; and the flag is set only after the
\* notification was written and flushed, so that a call whose write of the
\* notification fails leaves the session uninitialized.
C23_NotificationFireAndForget ==
    [][/\ Len(wire') = Len(wire) + 1 =>
            /\ IsNotification(Appended) =>
                 /\ Appended.id = UnsolicitedId
                 /\ Appended.ev \in {"lock", "body", "nl"}
                 /\ request_id' = request_id
                 /\ stdout' = stdout
                 /\ wire # <<>>
                 /\ Latest.by = Appended.by
                 /\ Appended.ev = "lock" =>
                      /\ Latest.ev = "read" /\ Latest.res = "ok"
                      /\ Latest.method = "initialize"
                 /\ Appended.ev = "body" =>
                      Latest.ev = "lock" /\ IsNotification(Latest)
                 /\ Appended.ev = "nl" =>
                      Latest.ev = "body" /\ IsNotification(Latest)
            /\ Appended.ev = "read" =>
                 /\ wire # <<>>
                 /\ Latest.ev = "nl" /\ IsRequest(Latest)
                 /\ SameMessage(Latest, Appended)
       /\ (~initialized /\ initialized') =>
            /\ wire # <<>>
            /\ Latest.ev = "nl" /\ IsNotification(Latest)
       /\ \A c \in CallTasks :
            (pc[c] \in {"notify_lock", "notify_write", "notify_newline"}
               /\ ret'[c] # ret[c]) => ~initialized'
      ]_vars

\* a call failed writing the notification, after the response to its
\* initialize request, and the session is not initialized
C23_Witness ==
    /\ ~initialized
    /\ wire # <<>>
    /\ IsNotification(Latest) /\ Latest.ev \in {"lock", "body"}
    /\ ret[Latest.by] = Err("Io")

\* the errors of an exchange with the backend
ExchangeErrors ==
    {"ResponseIdMismatch", "MalformedResponse", "EmptyResponse",
     "ProcessExited", "ToolInvocationError"}

\* C24: a call that fails does no recovery.  No step of the tools/call
\* exchange of a call changes the process handle or the flag, and the step
\* in which the call returns an id mismatch, a malformed or empty response,
\* the exit of the process or an error of the backend spawns nothing and
\* kills nothing; the handle is removed by shutdown alone (and by the
\* destruction of the bridge).
C24_FailedCallRecoversNothing ==
    [][/\ \A c \in CallTasks :
            /\ (method[c] = "tools/call" /\ pc'[c] # pc[c]) =>
                 UNCHANGED <<process, initialized>>
            /\ (ret'[c] # ret[c] /\ ret'[c].err \in ExchangeErrors) =>
                 UNCHANGED <<process, initialized, spawned, killed>>
       /\ (process # None /\ process' # process) =>
            /\ process' = None
            /\ \/ \E t \in ShutdownTasks : pc[t] = "shutdown" /\ pc'[t] # pc[t]
               \/ dropped'
      ]_vars

\* a call failed after the handshake on a response with another id, and the
\* bridge holds the process and the flag as before
C24_Witness ==
    /\ initialized /\ process # None
    /\ lastRead.outcome = "ResponseIdMismatch"
    /\ ret[lastRead.by] = Err("ResponseIdMismatch")
    /\ wire # <<>>
    /\ wire[Len(wire)].ev = "read" /\ wire[Len(wire)].method = "tools/call"

\* the processes that were spawned and have not been sent the kill signal
Unkilled == {p \in 1..spawned : ~killed[p]}

\* C25: the bridge owns at most one backend process that was spawned and not
\* yet killed, in every interleaving of calls and shutdowns: a process is
\* spawned only while no handle is held, and becomes the held one; a handle
\* is removed only together with the kill of its process.
C25_AtMostOneLiveProcess ==
    [][/\ Cardinality(Unkilled) <= 1
       /\ spawned' # spawned =>
            /\ process = None
            /\ Unkilled = {}
            /\ spawned' = spawned + 1 /\ process' = spawned'
       /\ (process # None /\ process' # process) =>
            /\ process' = None
            /\ killed'[process]
      ]_vars

\* two calls at once, the first process shut down under them: the second
\* process is the only one not killed, and the one the bridge holds
C25_Witness ==
    /\ spawned = 2 /\ killed[1] /\ ~killed[2] /\ process = 2
    /\ \A c \in CallTasks : pc[c] \notin {"idle", "done"}

\* the messages of a method whose text was written to the process
Written(m) == {i \in DOMAIN wire : wire[i].ev = "body" /\ wire[i].method = m}

\* no shutdown took place and every response read so far was accepted and
\* carried no error: nothing calls for a second handshake
Undisturbed ==
    /\ shutdowns = 0
    /\ \A i \in DOMAIN wire : wire[i].ev = "read" => wire[i].res = "ok"

\* C26: with concurrent calls on one bridge and no lock around them, a
\* process is sent at most one initialize request and at most one
\* initialized notification, and no tools/call request before the
\* notification.
C26_HandshakeOnceUnderConcurrency ==
    Undisturbed =>
        /\ Cardinality(Written("initialize")) <= 1
        /\ Cardinality(Written("notifications/initialized")) <= 1
        /\ \A i \in Written("tools/call") :
              \E n \in 1..(i - 1) :
                  wire[n].ev = "nl" /\ IsNotification(wire[n])

\* C27: no failure passes for success at the command handlers.  A handler
\* whose bridge call returned an error answers success = false, with the
\* text of that error, which is not empty, and without a result; ai_intent
\* with an intent that is not in its table answers success = false at once:
\* it makes no bridge call, so nothing is spawned and nothing is written.
C27_FailureIsNeverSuccess ==
    [][\A c \in CallTasks :
         /\ (response'[c].answered /\ ret'[c].kind = "err") =>
              /\ ~response'[c].success
              /\ response'[c].error = ret'[c].err
              /\ response'[c].error \notin {"", "-"}
              /\ response'[c].result = Absent
         /\ (response'[c] # response[c]
               /\ response'[c].error = "UnknownIntent") =>
              /\ ~response'[c].success
              /\ response'[c].result = Absent
              /\ pc[c] = "idle" /\ ret'[c] = NoReturn
              /\ UNCHANGED <<process, initialized, request_id, spawned,
                             procVars, wire, lastRead>>
      ]_vars

\* one handler answered with the error of its bridge call, another is an
\* ai_intent that was given an unknown intent while a process was running
C27_Witness ==
    \E c, d \in CallTasks :
        /\ response[c].answered /\ ret[c].kind = "err"
        /\ response[d] = UnknownIntentResponse
        /\ c < d /\ spawned = 1

====
